---- MODULE Spec2Model ----
(***************************************************************************)
(* Model of the MQTT session layer of the serial LTE modem application     *)
(* (applications/serial_lte_modem/src/mqtt_c/slm_at_mqtt.c).               *)
(*                                                                         *)
(* Two threads of control share the state: the command context, which runs *)
(* the AT command handlers, and the driver thread mqtt_thread_fn.  The     *)
(* MQTT engine (mqtt_connect, mqtt_input, ...), the resolver and the AT    *)
(* parameter parser are external: each call's result is a nondeterministic *)
(* choice, and an engine call may invoke the event handler.                *)
(***************************************************************************)
EXTENDS Integers, Sequences, FiniteSets, TLC

-----------------------------------------------------------------------------
(* Bounds of the model *)

\* message ids handed out after a start value before the commands stop
MaxIds == 2

-----------------------------------------------------------------------------
(* Program constants *)

UINT16_MAX == 65535
MQTT_QOS_2_EXACTLY_ONCE == 2
\* NET_IPV4_MTU
MQTT_MESSAGE_BUFFER_LEN == 576
INVALID_SEC_TAG == "INVALID_SEC_TAG"
MQTTC_DISCONNECT == 0
MQTTC_CONNECT == 1
MQTTC_CONNECT6 == 2
AT_MQTTSUB_UNSUB == 0
AT_MQTTSUB_SUB == 1

\* result codes: 0 and the negative errno values, by name
OK == "0"
EINVAL == "-EINVAL"
EISCONN == "-EISCONN"
ENOTCONN == "-ENOTCONN"
EMSGSIZE == "-EMSGSIZE"
\* a failure reported by an external call (engine, resolver, parser)
EIO == "-EIO"
EAI_FAIL == "EAI_FAIL"

POLLIN == "POLLIN"
POLLERR == "POLLERR"
POLLHUP == "POLLHUP"
POLLNVAL == "POLLNVAL"

-----------------------------------------------------------------------------
(* Inputs *)

\* parameter lists of AT#XMQTTCON=<op>,<cid>,<username>,<password>,<url>,<port>[,<sec_tag>]
ConnectParams ==
    { [op |-> MQTTC_CONNECT, cid |-> "dev1", username |-> "", password |-> "",
       url |-> "broker.example", port |-> 1883, count |-> 7, sec_tag |-> INVALID_SEC_TAG],
      [op |-> MQTTC_CONNECT6, cid |-> "dev2", username |-> "user", password |-> "pw",
       url |-> "broker6.example", port |-> 8883, count |-> 8, sec_tag |-> "42"] }

\* index of the parameter whose parsing fails, 0 when all parse
ParseFailures == {0, 2}

\* results of an engine call
EngineResults == {OK, EIO}

\* what poll() reports in revents
PollOutcomes == { {}, {POLLIN}, {POLLERR}, {POLLNVAL}, {POLLIN, POLLHUP} }

-----------------------------------------------------------------------------
(* State *)

VARIABLES
    ctx,               \* struct slm_mqtt_ctx
    mqtt_broker_url,
    mqtt_broker_port,
    mqtt_clientid,
    mqtt_username,
    mqtt_password,
    client,            \* struct mqtt_client, the fields this file sets
    pub_param,         \* struct mqtt_publish_param
    pub_topic,
    pub_msg,
    sub_message_id,    \* static of do_mqtt_subscribe
    thr,               \* mqtt_thread running mqtt_thread_fn: position and fds.revents
    datamode,          \* the AT host is in data mode with mqtt_datamode_callback
    cpc,               \* position of the command context
    last,              \* the command being run and its return value
    cmdCalls,          \* external calls made by the command being run
    hout               \* what the last run of mqtt_evt_handler did

vars == << ctx, mqtt_broker_url, mqtt_broker_port, mqtt_clientid, mqtt_username,
           mqtt_password, client, pub_param, pub_topic, pub_msg, sub_message_id,
           thr, datamode, cpc, last, cmdCalls, hout >>

\* the session fields a CONNECT command stores
sessionVars == << ctx, mqtt_broker_url, mqtt_broker_port, mqtt_clientid,
                  mqtt_username, mqtt_password, client >>

\* the state of the publish and subscribe paths
pubsubVars == << pub_param, pub_topic, pub_msg, sub_message_id >>

\* a command's return: its name and return value and, of a publish or subscribe
\* command, the qos and retain given and the message id counter on entry
Ret(cmd, ret) == [cmd |-> cmd, ret |-> ret, qos |-> 0, retain |-> 0, prev |-> 0]
NoCmd == Ret("none", OK)
NoEvent == [type |-> "none", result |-> OK, message_id |-> 0, topic |-> "", len |-> 0]
NoEvt == [type |-> "none", ret |-> OK, calls |-> << >>, rsp |-> << >>,
          evt |-> NoEvent, sub |-> OK, trace |-> << >>]
NoBroker == [family |-> "AF_UNSPEC", host |-> "", port |-> 0]
\* mqtt_thread before the first k_thread_create.  err: the local err of
\* mqtt_thread_fn; exit: the break by which an instance that has returned left
\* its loop
NoThread == [pc |-> "none", revents |-> {}, err |-> OK, exit |-> "none"]

\* slm_at_mqtt_init() on zero-initialised statics
Init ==
    /\ ctx = [family |-> "AF_UNSPEC", connected |-> FALSE, username |-> 0,
              password |-> 0, sec_tag |-> INVALID_SEC_TAG, broker |-> NoBroker]
    /\ mqtt_broker_url = ""
    /\ mqtt_broker_port = 0
    /\ mqtt_clientid = ""
    /\ mqtt_username = ""
    /\ mqtt_password = ""
    /\ client = [broker |-> "NULL", client_id |-> 0, user_name |-> "NULL",
                 password |-> "NULL", transport |-> "NON_SECURE"]
    /\ pub_param = [qos |-> 0, retain |-> 0, dup |-> 0, message_id |-> 0,
                    topic_size |-> 0, payload |-> ""]
    /\ pub_topic = ""
    /\ pub_msg = ""
    /\ sub_message_id = 0
    /\ thr = NoThread
    /\ datamode = FALSE
    /\ cpc = "idle"
    /\ last = NoCmd
    /\ cmdCalls = << >>
    /\ hout = NoEvt

-----------------------------------------------------------------------------
(* Observation variables: last and cmdCalls describe the command that        *)
(* returned in the step leading to the state; hout the run of the event      *)
(* handler in that step.                                                     *)

\* a step of the driver thread: no command returns in it
DriverObserves ==
    /\ last' = NoCmd
    /\ cmdCalls' = IF cpc = "idle" THEN << >> ELSE cmdCalls

-----------------------------------------------------------------------------
(* Event dispatcher *)

\* the bytes of an inbound payload of n bytes
Payload(n) == [i \in 1..n |-> 1 + (i % 7)]

\* inbound protocol events the engine hands to the callback; MQTT_EVT_UNSUBACK
\* and MQTT_EVT_PINGRESP have no case of their own in the handler
Events ==
    { [type |-> t, result |-> r, message_id |-> 0, topic |-> "", len |-> 0] :
        t \in {"MQTT_EVT_CONNACK", "MQTT_EVT_DISCONNECT", "MQTT_EVT_UNSUBACK"},
        r \in EngineResults }
    \cup
    { [type |-> t, result |-> r, message_id |-> 1, topic |-> "", len |-> 0] :
        t \in {"MQTT_EVT_PUBACK", "MQTT_EVT_PUBCOMP", "MQTT_EVT_SUBACK"},
        r \in EngineResults }
    \cup
    { [type |-> t, result |-> r, message_id |-> i, topic |-> "", len |-> 0] :
        t \in {"MQTT_EVT_PUBREC", "MQTT_EVT_PUBREL"},
        r \in EngineResults, i \in {1, 2} }
    \cup
    { [type |-> "MQTT_EVT_PUBLISH", result |-> OK, message_id |-> 0,
       topic |-> "t/1", len |-> n] :
        n \in {5, MQTT_MESSAGE_BUFFER_LEN, MQTT_MESSAGE_BUFFER_LEN + 1} }

\* the event mqtt_disconnect and mqtt_abort raise when they close the transport
DisconnectEvt(r) ==
    [type |-> "MQTT_EVT_DISCONNECT", result |-> r, message_id |-> 0,
     topic |-> "", len |-> 0]

\* static uint8_t payload_buf[MQTT_MESSAGE_BUFFER_LEN], before a payload is read
payload_buf == [i \in 1..MQTT_MESSAGE_BUFFER_LEN |-> 0]

\* mqtt_readall_publish_payload(c, payload_buf, length) when it succeeds: the
\* first length bytes of the buffer hold the payload
mqtt_readall_publish_payload(buf, length) ==
    [i \in 1..Len(buf) |-> IF i <= length THEN Payload(length)[i] ELSE buf[i]]

\* rsp_send(buf, len): the first len bytes of buf go to the response channel
rsp_send(buf, len) == SubSeq(buf, 1, len)

\* Faulty variant of publish_get_payload: a payload that fills the buffer is
\* refused.
publish_get_payload_inclusive(length, rd) ==
    IF length >= MQTT_MESSAGE_BUFFER_LEN THEN EMSGSIZE ELSE rd

\* rd: the result of mqtt_readall_publish_payload
publish_get_payload(length, rd) ==
    IF length > MQTT_MESSAGE_BUFFER_LEN THEN EMSGSIZE ELSE rd

\* the return value, and what is sent to the response channel
handle_mqtt_publish_evt(evt, rd) ==
    LET ret == publish_get_payload(evt.len, rd) IN
    IF ret # OK
    THEN [ret |-> ret, rsp |-> << >>]
    ELSE LET buf == mqtt_readall_publish_payload(payload_buf, evt.len) IN
         [ret |-> OK,
          rsp |-> << [line |-> "#XMQTTMSG", a |-> Len(evt.topic), b |-> evt.len],
                     [raw |-> "topic", bytes |-> evt.topic, size |-> Len(evt.topic)],
                     [raw |-> "payload_buf", bytes |-> rsp_send(buf, evt.len),
                      size |-> evt.len] >>]

\* the calls of a handler run to the response channel and to the engine and its
\* write of the connected flag, in the order they are made
Trace(evt, flag, calls, body) ==
    (IF flag THEN << "ctx.connected = false" >> ELSE << >>)
    \o [i \in 1..Len(calls) |-> calls[i].call]
    \o (IF evt.type = "MQTT_EVT_PUBLISH" /\ evt.len <= MQTT_MESSAGE_BUFFER_LEN
        THEN << "mqtt_readall_publish_payload" >> ELSE << >>)
    \o [i \in 1..Len(body) |->
          IF "line" \in DOMAIN body[i] THEN body[i].line ELSE "rsp_send"]

\* Faulty variant of mqtt_evt_handler: a branch whose action fails returns
\* without the notification.
mqtt_evt_handler_returns_on_error(evt, sub) ==
    LET pub == handle_mqtt_publish_evt(evt, sub)
        qos2 == evt.type \in {"MQTT_EVT_PUBREC", "MQTT_EVT_PUBREL"} /\ evt.result = OK
        ret == CASE evt.type = "MQTT_EVT_PUBLISH" -> pub.ret
                 [] qos2 -> sub
                 [] OTHER -> evt.result
        calls == CASE evt.type = "MQTT_EVT_PUBREC" /\ qos2 ->
                        << [call |-> "mqtt_publish_qos2_release", id |-> evt.message_id] >>
                   [] evt.type = "MQTT_EVT_PUBREL" /\ qos2 ->
                        << [call |-> "mqtt_publish_qos2_complete", id |-> evt.message_id] >>
                   [] OTHER -> << >>
        flag == \/ evt.type = "MQTT_EVT_CONNACK" /\ evt.result # OK
                \/ evt.type = "MQTT_EVT_DISCONNECT"
        body == IF evt.type = "MQTT_EVT_PUBLISH" THEN pub.rsp ELSE << >>
        rsp == IF ret # OK THEN body
               ELSE Append(body, [line |-> "#XMQTTEVT", a |-> evt.type, b |-> ret])
    IN [connected |-> IF flag THEN FALSE ELSE ctx.connected,
        out |-> [type |-> evt.type, ret |-> ret, calls |-> calls, rsp |-> rsp,
                 evt |-> evt, sub |-> sub, trace |-> Trace(evt, flag, calls, rsp)]]

\* Faulty variant of mqtt_evt_handler: the QoS2 step is made whatever the
\* result of the event.
mqtt_evt_handler_qos2_always(evt, sub) ==
    LET pub == handle_mqtt_publish_evt(evt, sub)
        qos2 == evt.type \in {"MQTT_EVT_PUBREC", "MQTT_EVT_PUBREL"}
        ret == CASE evt.type = "MQTT_EVT_PUBLISH" -> pub.ret
                 [] qos2 -> sub
                 [] OTHER -> evt.result
        calls == CASE evt.type = "MQTT_EVT_PUBREC" /\ qos2 ->
                        << [call |-> "mqtt_publish_qos2_release", id |-> evt.message_id] >>
                   [] evt.type = "MQTT_EVT_PUBREL" /\ qos2 ->
                        << [call |-> "mqtt_publish_qos2_complete", id |-> evt.message_id] >>
                   [] OTHER -> << >>
        flag == \/ evt.type = "MQTT_EVT_CONNACK" /\ evt.result # OK
                \/ evt.type = "MQTT_EVT_DISCONNECT"
        body == IF evt.type = "MQTT_EVT_PUBLISH" THEN pub.rsp ELSE << >>
        rsp == Append(body, [line |-> "#XMQTTEVT", a |-> evt.type, b |-> ret])
    IN [connected |-> IF flag THEN FALSE ELSE ctx.connected,
        out |-> [type |-> evt.type, ret |-> ret, calls |-> calls, rsp |-> rsp,
                 evt |-> evt, sub |-> sub, trace |-> Trace(evt, flag, calls, rsp)]]

\* sub: the result of the external call the branch makes (payload read, QoS2
\* release or completion).  Gives the new connected flag and the handler's
\* output: the event, the value notified, the engine calls made, what is sent
\* to the response channel, and all of these in the order of the code.
mqtt_evt_handler(evt, sub) ==
    LET pub == handle_mqtt_publish_evt(evt, sub)
        qos2 == evt.type \in {"MQTT_EVT_PUBREC", "MQTT_EVT_PUBREL"} /\ evt.result = OK
        ret == CASE evt.type = "MQTT_EVT_PUBLISH" -> pub.ret
                 [] qos2 -> sub
                 [] OTHER -> evt.result
        calls == CASE evt.type = "MQTT_EVT_PUBREC" /\ qos2 ->
                        << [call |-> "mqtt_publish_qos2_release", id |-> evt.message_id] >>
                   [] evt.type = "MQTT_EVT_PUBREL" /\ qos2 ->
                        << [call |-> "mqtt_publish_qos2_complete", id |-> evt.message_id] >>
                   [] OTHER -> << >>
        flag == \/ evt.type = "MQTT_EVT_CONNACK" /\ evt.result # OK
                \/ evt.type = "MQTT_EVT_DISCONNECT"
        body == IF evt.type = "MQTT_EVT_PUBLISH" THEN pub.rsp ELSE << >>
        rsp == Append(body, [line |-> "#XMQTTEVT", a |-> evt.type, b |-> ret])
    IN [connected |-> IF flag THEN FALSE ELSE ctx.connected,
        out |-> [type |-> evt.type, ret |-> ret, calls |-> calls, rsp |-> rsp,
                 evt |-> evt, sub |-> sub, trace |-> Trace(evt, flag, calls, rsp)]]

-----------------------------------------------------------------------------
(* Session driver: mqtt_thread_fn *)

\* Faulty variant of DrvTop: the loop does not test the connected flag.
DrvTop_ignores_flag ==
    /\ thr.pc = "top"
    /\ thr' = [thr EXCEPT !.pc = "poll"]
    /\ hout' = NoEvt
    /\ DriverObserves
    /\ UNCHANGED << sessionVars, pubsubVars, datamode, cpc >>

\* while (true) { if (!ctx.connected) break;
DrvTop ==
    /\ thr.pc = "top"
    /\ thr' = IF ctx.connected
              THEN [thr EXCEPT !.pc = "poll"]
              ELSE [thr EXCEPT !.pc = "done", !.exit = "connected"]
    /\ hout' = NoEvt
    /\ DriverObserves
    /\ UNCHANGED << sessionVars, pubsubVars, datamode, cpc >>

\* err = poll(&fds, 1, mqtt_keepalive_time_left(&client)); if (err < 0) break;
DrvPoll ==
    /\ thr.pc = "poll"
    /\ \/ thr' = [thr EXCEPT !.pc = "done", !.err = EIO, !.exit = "poll"]
       \/ \E re \in PollOutcomes :
             thr' = [thr EXCEPT !.pc = "live", !.err = OK, !.revents = re]
    /\ hout' = NoEvt
    /\ DriverObserves
    /\ UNCHANGED << sessionVars, pubsubVars, datamode, cpc >>

\* (void)mqtt_live(&client); if ((fds.revents & POLLIN) == POLLIN)
DrvLive ==
    /\ thr.pc = "live"
    /\ thr' = [thr EXCEPT !.pc = IF POLLIN \in thr.revents THEN "input" ELSE "check"]
    /\ hout' = NoEvt
    /\ DriverObserves
    /\ UNCHANGED << sessionVars, pubsubVars, datamode, cpc >>

\* err = mqtt_input(&client): the engine decodes inbound data and hands an event
\* to mqtt_evt_handler
DrvInput ==
    /\ thr.pc = "input"
    /\ thr' = [thr EXCEPT !.pc = "input_ret"]
    /\ \E evt \in Events, sub \in EngineResults :
          LET h == mqtt_evt_handler(evt, sub) IN
          /\ ctx' = [ctx EXCEPT !.connected = h.connected]
          /\ hout' = h.out
    /\ DriverObserves
    /\ UNCHANGED << mqtt_broker_url, mqtt_broker_port, mqtt_clientid, mqtt_username,
                    mqtt_password, client, pubsubVars, datamode, cpc >>

\* mqtt_input returns, with or without an event handed over: if (err != 0)
DrvInputRet ==
    /\ thr.pc \in {"input", "input_ret"}
    /\ \E err \in EngineResults :
          thr' = [thr EXCEPT !.pc = IF err # OK THEN "abort" ELSE "check",
                             !.err = err,
                             !.revents = thr.revents \ {POLLIN}]
    /\ hout' = NoEvt
    /\ UNCHANGED ctx
    /\ DriverObserves
    /\ UNCHANGED << mqtt_broker_url, mqtt_broker_port, mqtt_clientid, mqtt_username,
                    mqtt_password, client, pubsubVars, datamode, cpc >>

\* Faulty variant of DrvCheck: a hangup does not end the loop.
DrvCheck_ignores_hangup ==
    /\ thr.pc = "check"
    /\ thr' = [thr EXCEPT !.pc =
                 IF thr.revents \cap {POLLERR, POLLNVAL} # {}
                 THEN "abort" ELSE "top"]
    /\ hout' = NoEvt
    /\ DriverObserves
    /\ UNCHANGED << sessionVars, pubsubVars, datamode, cpc >>

\* the POLLERR, POLLHUP and POLLNVAL tests that end an iteration
DrvCheck ==
    /\ thr.pc = "check"
    /\ thr' = [thr EXCEPT !.pc =
                 IF thr.revents \cap {POLLERR, POLLHUP, POLLNVAL} # {}
                 THEN "abort" ELSE "top"]
    /\ hout' = NoEvt
    /\ DriverObserves
    /\ UNCHANGED << sessionVars, pubsubVars, datamode, cpc >>

\* mqtt_abort(&client); break;  The engine closes the transport and may raise
\* the disconnect event.
DrvAbort ==
    /\ thr.pc = "abort"
    /\ thr' = [thr EXCEPT !.pc = "done", !.exit = "mqtt_abort"]
    /\ \/ /\ hout' = NoEvt
          /\ UNCHANGED ctx
       \/ LET h == mqtt_evt_handler(DisconnectEvt(EIO), OK) IN
          /\ ctx' = [ctx EXCEPT !.connected = h.connected]
          /\ hout' = h.out
    /\ DriverObserves
    /\ UNCHANGED << mqtt_broker_url, mqtt_broker_port, mqtt_clientid, mqtt_username,
                    mqtt_password, client, pubsubVars, datamode, cpc >>

mqtt_thread_fn ==
    \/ DrvTop
    \/ DrvPoll
    \/ DrvLive
    \/ DrvInput
    \/ DrvInputRet
    \/ DrvCheck
    \/ DrvAbort

-----------------------------------------------------------------------------
(* Session lifecycle: AT#XMQTTCON *)

Call(name, id) == [call |-> name, id |-> id]

CmdEnabled == cpc = "idle" /\ ~datamode

\* mqtt_thread holds an instance of mqtt_thread_fn that has not returned
ThreadAlive == thr.pc \notin {"none", "done"}

\* ctx after the parameters of a connect command are stored (lines 465-498)
StoreParams(p) ==
    [ctx EXCEPT !.username = Len(p.username),
                !.password = Len(p.password),
                !.sec_tag = IF p.count > 7 THEN p.sec_tag ELSE INVALID_SEC_TAG,
                !.family = IF p.op = MQTTC_CONNECT THEN "AF_INET" ELSE "AF_INET6"]

\* ctx after a successful broker_init
broker_init(c, url, port) ==
    [c EXCEPT !.broker = [family |-> c.family, host |-> url, port |-> port]]

\* client after client_init, CONFIG_MQTT_LIB_TLS enabled
client_init(c, cid) ==
    [broker |-> IF c.family = "AF_INET" THEN "ctx.broker" ELSE "ctx.broker6",
     client_id |-> Len(cid),
     user_name |-> IF c.username > 0 THEN "ctx.username" ELSE "NULL",
     password |-> IF c.username > 0 /\ c.password > 0 THEN "ctx.password" ELSE "NULL",
     transport |-> IF c.sec_tag # INVALID_SEC_TAG THEN "SECURE" ELSE "NON_SECURE"]

\* Faulty variant of do_mqtt_connect: the connected flag is set before the
\* handshake and stays set when the handshake fails.
do_mqtt_connect_flag_first(c, url, port, cid, rb, rc) ==
    IF c.connected
    THEN [ret |-> EISCONN, ctx |-> c, client |-> client, calls |-> << >>, pc |-> "idle"]
    ELSE IF rb # OK
    THEN [ret |-> rb, ctx |-> c, client |-> client,
          calls |-> << Call("getaddrinfo", 0) >>, pc |-> "idle"]
    ELSE LET b == broker_init(c, url, port) IN
         [ret |-> rc, ctx |-> [b EXCEPT !.connected = TRUE], client |-> client_init(b, cid),
          calls |-> << Call("getaddrinfo", 0), Call("mqtt_connect", 0) >>,
          pc |-> IF rc # OK THEN "idle" ELSE "conn_create"]

\* do_mqtt_connect up to the creation of the thread.  c: ctx on entry;
\* rb: result of getaddrinfo; rc: result of mqtt_connect.
do_mqtt_connect(c, url, port, cid, rb, rc) ==
    IF c.connected
    THEN [ret |-> EISCONN, ctx |-> c, client |-> client, calls |-> << >>, pc |-> "idle"]
    ELSE IF rb # OK
    THEN [ret |-> rb, ctx |-> c, client |-> client,
          calls |-> << Call("getaddrinfo", 0) >>, pc |-> "idle"]
    ELSE LET b == broker_init(c, url, port) IN
         [ret |-> rc, ctx |-> b, client |-> client_init(b, cid),
          calls |-> << Call("getaddrinfo", 0), Call("mqtt_connect", 0) >>,
          pc |-> IF rc # OK THEN "idle" ELSE "conn_create"]

\* AT#XMQTTCON=1,... and AT#XMQTTCON=2,...: the parameters are stored, then
\* do_mqtt_connect runs
CmdConnect(p, bad, rb, rc) ==
    /\ CmdEnabled
    /\ IF bad # 0
       THEN /\ last' = Ret("connect", EINVAL)
            /\ cmdCalls' = << >>
            /\ UNCHANGED << sessionVars, cpc >>
       ELSE LET d == do_mqtt_connect(StoreParams(p), p.url, p.port, p.cid, rb, rc) IN
            /\ mqtt_clientid' = p.cid
            /\ mqtt_username' = p.username
            /\ mqtt_password' = p.password
            /\ mqtt_broker_url' = p.url
            /\ mqtt_broker_port' = p.port
            /\ ctx' = d.ctx
            /\ client' = d.client
            /\ cmdCalls' = d.calls
            /\ cpc' = d.pc
            /\ last' = IF d.pc = "idle" THEN Ret("connect", d.ret) ELSE NoCmd
    /\ hout' = NoEvt
    /\ UNCHANGED << pubsubVars, thr, datamode >>

\* what k_thread_create leaves in mqtt_thread.  The object and its stack are
\* initialised anew, so an instance that had not returned is lost: the new
\* instance starts in its place, or the thread does not run again.
k_thread_create ==
    IF ThreadAlive
    THEN { [NoThread EXCEPT !.pc = "top"], [NoThread EXCEPT !.pc = "done"] }
    ELSE { [NoThread EXCEPT !.pc = "top"] }

\* k_thread_create(&mqtt_thread, ...): the new instance is ready to run
ConnCreate ==
    /\ cpc = "conn_create"
    /\ thr' \in k_thread_create
    /\ cmdCalls' = Append(cmdCalls, Call("k_thread_create", 0))
    /\ cpc' = "conn_mark"
    /\ last' = NoCmd
    /\ hout' = NoEvt
    /\ UNCHANGED << sessionVars, pubsubVars, datamode >>

\* ctx.connected = true; return 0;
ConnMark ==
    /\ cpc = "conn_mark"
    /\ ctx' = [ctx EXCEPT !.connected = TRUE]
    /\ cpc' = "idle"
    /\ last' = Ret("connect", OK)
    /\ hout' = NoEvt
    /\ UNCHANGED << mqtt_broker_url, mqtt_broker_port, mqtt_clientid, mqtt_username,
                    mqtt_password, client, pubsubVars, thr, datamode, cmdCalls >>

\* Faulty variant of do_mqtt_disconnect: the connected flag is not tested.
do_mqtt_disconnect_unguarded(r, h) ==
    [ret |-> r, connected |-> h.connected, hout |-> h.out,
     calls |-> << Call("mqtt_disconnect", 0) >>,
     pc |-> IF r # OK THEN "idle" ELSE "disc_join"]

\* do_mqtt_disconnect up to the wait for the thread.  r: result of
\* mqtt_disconnect; h: the handler run the engine makes inside it, if any.
do_mqtt_disconnect(r, h) ==
    IF ~ctx.connected
    THEN [ret |-> ENOTCONN, connected |-> ctx.connected, hout |-> NoEvt,
          calls |-> << >>, pc |-> "idle"]
    ELSE [ret |-> r, connected |-> h.connected, hout |-> h.out,
          calls |-> << Call("mqtt_disconnect", 0) >>,
          pc |-> IF r # OK THEN "idle" ELSE "disc_join"]

\* the engine's mqtt_disconnect may raise the disconnect event before it returns
DisconnectRuns(r) ==
    { [connected |-> ctx.connected, out |-> NoEvt],
      mqtt_evt_handler(DisconnectEvt(r), OK) }

\* AT#XMQTTCON=0
CmdDisconnect(r, h) ==
    /\ CmdEnabled
    /\ LET d == do_mqtt_disconnect(r, h) IN
       /\ ctx' = [ctx EXCEPT !.connected = d.connected]
       /\ hout' = d.hout
       /\ cmdCalls' = d.calls
       /\ cpc' = d.pc
       /\ last' = IF d.pc = "idle" THEN Ret("disconnect", d.ret) ELSE NoCmd
    /\ UNCHANGED << mqtt_broker_url, mqtt_broker_port, mqtt_clientid, mqtt_username,
                    mqtt_password, client, pubsubVars, thr, datamode >>

\* client.broker = NULL
slm_at_mqtt_uninit == [client EXCEPT !.broker = "NULL"]

\* k_thread_join(&mqtt_thread, K_SECONDS(CONFIG_MQTT_KEEPALIVE)) returns, when the
\* thread has ended or at the timeout; slm_at_mqtt_uninit(); return err;
DiscJoin(timeout) ==
    /\ cpc = "disc_join"
    /\ timeout = (thr.pc # "done")
    /\ client' = slm_at_mqtt_uninit
    /\ cmdCalls' = cmdCalls \o << Call(IF timeout THEN "k_thread_join:timeout"
                                                  ELSE "k_thread_join", 0),
                                 Call("slm_at_mqtt_uninit", 0) >>
    /\ cpc' = "idle"
    /\ last' = Ret("disconnect", OK)
    /\ hout' = NoEvt
    /\ UNCHANGED << ctx, mqtt_broker_url, mqtt_broker_port, mqtt_clientid,
                    mqtt_username, mqtt_password, pubsubVars, thr, datamode >>

\* AT#XMQTTCON=<op> with an op that is none of 0, 1, 2
CmdConnectBadOp ==
    /\ CmdEnabled
    /\ last' = Ret("connect", EINVAL)
    /\ cmdCalls' = << >>
    /\ hout' = NoEvt
    /\ UNCHANGED << sessionVars, pubsubVars, thr, datamode, cpc >>

handle_at_mqtt_connect ==
    \/ \E p \in ConnectParams, bad \in ParseFailures, rb \in {OK, EAI_FAIL},
          rc \in EngineResults : CmdConnect(p, bad, rb, rc)
    \/ ConnCreate
    \/ ConnMark
    \/ \E r \in EngineResults : \E h \in DisconnectRuns(r) : CmdDisconnect(r, h)
    \/ \E timeout \in BOOLEAN : DiscJoin(timeout)
    \/ CmdConnectBadOp

-----------------------------------------------------------------------------
(* Publish/subscribe tracker: AT#XMQTTPUB, AT#XMQTTSUB, AT#XMQTTUNSUB *)

Topics == {"t/1", "t/22"}
Messages == {"", "hello"}
\* qos and retain as given on the command line, in and out of range
QosValues == {0, 1, 2, 3, UINT16_MAX}
RetainValues == 0..2
\* payload chunks the data mode hands to the callback
Chunks == {"data"}

\* the commands stop when MaxIds ids have been handed out after 0 or after a wrap
IdCap(id) == id < MaxIds \/ id >= UINT16_MAX - MaxIds

\* Faulty variant of NextMessageId: the counter wraps without the reset to 1.
NextMessageId_plain_wrap(id) == (id + 1) % (UINT16_MAX + 1)

\* x++ on a uint16_t, then: if (x == UINT16_MAX) x = 1;
NextMessageId(id) ==
    LET n == (id + 1) % (UINT16_MAX + 1) IN
    IF n = UINT16_MAX THEN 1 ELSE n

\* Faulty variant of QosValid: the bound is one too high.
QosValid_off_by_one(qos) == qos <= MQTT_QOS_2_EXACTLY_ONCE + 1

\* qos <= MQTT_QOS_2_EXACTLY_ONCE
QosValid(qos) == qos <= MQTT_QOS_2_EXACTLY_ONCE

\* retain <= 1
RetainValid(retain) == retain <= 1

\* do_mqtt_publish: pub_param with the payload set; the engine call is the caller's
do_mqtt_publish(pp, msg) == [pp EXCEPT !.payload = msg]

\* The set command of handle_at_mqtt_publish after the parameters are read.
\* r: result of mqtt_publish or of enter_datamode.
handle_at_mqtt_publish(topic, msg, qos, retain, r) ==
    IF ~QosValid(qos)
    THEN [ret |-> EINVAL, pub_param |-> pub_param, calls |-> << >>, datamode |-> FALSE]
    ELSE IF ~RetainValid(retain)
    THEN [ret |-> EINVAL, pub_param |-> [pub_param EXCEPT !.qos = qos],
          calls |-> << >>, datamode |-> FALSE]
    ELSE LET pp == [pub_param EXCEPT !.qos = qos, !.retain = retain,
                                      !.topic_size = Len(topic), !.dup = 0,
                                      !.message_id = NextMessageId(pub_param.message_id)]
         IN IF Len(msg) = 0
            THEN [ret |-> r, pub_param |-> pp,
                  calls |-> << Call("enter_datamode", 0) >>, datamode |-> (r = OK)]
            ELSE [ret |-> r, pub_param |-> do_mqtt_publish(pp, msg),
                  calls |-> << Call("mqtt_publish", pp.message_id) >>,
                  datamode |-> FALSE]

\* AT#XMQTTPUB=<topic>[,<msg>[,<qos>[,<retain>]]]
CmdPublish(topic, msg, qos, retain, r) ==
    /\ CmdEnabled
    /\ IdCap(pub_param.message_id)
    /\ LET d == handle_at_mqtt_publish(topic, msg, qos, retain, r) IN
       /\ pub_topic' = topic
       /\ pub_msg' = msg
       /\ pub_param' = d.pub_param
       /\ datamode' = d.datamode
       /\ cmdCalls' = d.calls
       /\ last' = [cmd |-> "publish", ret |-> d.ret, qos |-> qos, retain |-> retain,
                 prev |-> pub_param.message_id]
    /\ hout' = NoEvt
    /\ UNCHANGED << sessionVars, sub_message_id, thr, cpc >>

\* mqtt_datamode_callback(DATAMODE_SEND, data, len)
DatamodeSend(data, r) ==
    /\ cpc = "idle"
    /\ datamode
    /\ pub_param' = do_mqtt_publish(pub_param, data)
    /\ cmdCalls' = << Call("mqtt_publish", pub_param.message_id) >>
    /\ last' = Ret("datamode_send", r)
    /\ hout' = NoEvt
    /\ UNCHANGED << sessionVars, pub_topic, pub_msg, sub_message_id, thr, datamode, cpc >>

\* mqtt_datamode_callback(DATAMODE_EXIT, ...): the AT host leaves data mode
DatamodeExit ==
    /\ cpc = "idle"
    /\ datamode
    /\ datamode' = FALSE
    /\ cmdCalls' = << >>
    /\ last' = Ret("datamode_exit", OK)
    /\ hout' = NoEvt
    /\ UNCHANGED << sessionVars, pubsubVars, thr, cpc >>

\* do_mqtt_subscribe(op, topic_buf, topic_len, qos).  id: sub_message_id on
\* entry; r: result of mqtt_subscribe or mqtt_unsubscribe.
do_mqtt_subscribe(op, qos, id, r) ==
    LET n == NextMessageId(id) IN
    IF ~QosValid(qos)
    THEN [ret |-> EINVAL, id |-> n, calls |-> << >>]
    ELSE IF op = AT_MQTTSUB_SUB
    THEN [ret |-> r, id |-> n, calls |-> << Call("mqtt_subscribe", n) >>]
    ELSE IF op = AT_MQTTSUB_UNSUB
    THEN [ret |-> r, id |-> n, calls |-> << Call("mqtt_unsubscribe", n) >>]
    ELSE [ret |-> EINVAL, id |-> n, calls |-> << >>]

\* AT#XMQTTSUB=<topic>,<qos>
CmdSubscribe(topic, qos, r) ==
    /\ CmdEnabled
    /\ IdCap(sub_message_id)
    /\ LET d == do_mqtt_subscribe(AT_MQTTSUB_SUB, qos, sub_message_id, r) IN
       /\ sub_message_id' = d.id
       /\ cmdCalls' = d.calls
       /\ last' = [cmd |-> "subscribe", ret |-> d.ret, qos |-> qos, retain |-> 0,
                 prev |-> sub_message_id]
    /\ hout' = NoEvt
    /\ UNCHANGED << sessionVars, pub_param, pub_topic, pub_msg, thr, datamode, cpc >>

\* AT#XMQTTUNSUB=<topic>
CmdUnsubscribe(topic, r) ==
    /\ CmdEnabled
    /\ IdCap(sub_message_id)
    /\ LET d == do_mqtt_subscribe(AT_MQTTSUB_UNSUB, 0, sub_message_id, r) IN
       /\ sub_message_id' = d.id
       /\ cmdCalls' = d.calls
       /\ last' = [cmd |-> "unsubscribe", ret |-> d.ret, qos |-> 0, retain |-> 0,
                 prev |-> sub_message_id]
    /\ hout' = NoEvt
    /\ UNCHANGED << sessionVars, pub_param, pub_topic, pub_msg, thr, datamode, cpc >>

NextPub ==
    \/ \E topic \in Topics, msg \in Messages, qos \in QosValues,
          retain \in RetainValues, r \in EngineResults :
          CmdPublish(topic, msg, qos, retain, r)
    \/ \E data \in Chunks, r \in EngineResults : DatamodeSend(data, r)
    \/ DatamodeExit
    \/ \E topic \in Topics, qos \in QosValues, r \in EngineResults :
          CmdSubscribe(topic, qos, r)
    \/ \E topic \in Topics, r \in EngineResults : CmdUnsubscribe(topic, r)

NextLife ==
    \/ handle_at_mqtt_connect
    \/ mqtt_thread_fn

SpecLife == Init /\ [][NextLife]_vars

\* the driver thread is scheduled again and again while it has not returned,
\* and each of its calls returns: poll() at the latest at its timeout
SpecLifeFair == Init /\ [][NextLife]_vars /\ WF_vars(mqtt_thread_fn)

\* the publish and subscribe paths alone, started with the counters at 0 or
\* shortly before the wrap (a state reached after that many commands)
InitIds ==
    \E p \in {0, UINT16_MAX - MaxIds}, q \in {0, UINT16_MAX - MaxIds} :
       /\ ctx = [family |-> "AF_UNSPEC", connected |-> FALSE, username |-> 0,
                 password |-> 0, sec_tag |-> INVALID_SEC_TAG, broker |-> NoBroker]
       /\ mqtt_broker_url = ""
       /\ mqtt_broker_port = 0
       /\ mqtt_clientid = ""
       /\ mqtt_username = ""
       /\ mqtt_password = ""
       /\ client = [broker |-> "NULL", client_id |-> 0, user_name |-> "NULL",
                    password |-> "NULL", transport |-> "NON_SECURE"]
       /\ pub_param = [qos |-> 0, retain |-> 0, dup |-> 0, message_id |-> p,
                       topic_size |-> 0, payload |-> ""]
       /\ pub_topic = ""
       /\ pub_msg = ""
       /\ sub_message_id = q
       /\ thr = NoThread
       /\ datamode = FALSE
       /\ cpc = "idle"
       /\ last = NoCmd
       /\ cmdCalls = << >>
       /\ hout = NoEvt

SpecIds == InitIds /\ [][NextPub]_vars

-----------------------------------------------------------------------------
(* Engine calls that take time: the caller is inside mqtt_live or            *)
(* mqtt_publish from the call to the return, and the other thread runs       *)
(* meanwhile.  No lock is taken in this file around either call.             *)

\* the driver calls mqtt_live(&client)
DrvLiveCall ==
    /\ thr.pc = "live"
    /\ thr' = [thr EXCEPT !.pc = "in_mqtt_live"]
    /\ hout' = NoEvt
    /\ DriverObserves
    /\ UNCHANGED << sessionVars, pubsubVars, datamode, cpc >>

\* mqtt_live returns: if ((fds.revents & POLLIN) == POLLIN)
DrvLiveRet ==
    /\ thr.pc = "in_mqtt_live"
    /\ thr' = [thr EXCEPT !.pc = IF POLLIN \in thr.revents THEN "input" ELSE "check"]
    /\ hout' = NoEvt
    /\ DriverObserves
    /\ UNCHANGED << sessionVars, pubsubVars, datamode, cpc >>

\* AT#XMQTTPUB with a message, up to the call of mqtt_publish in do_mqtt_publish
PublishCall(topic, msg, qos, retain) ==
    /\ CmdEnabled
    /\ IdCap(pub_param.message_id)
    /\ LET d == handle_at_mqtt_publish(topic, msg, qos, retain, OK) IN
       /\ d.calls # << >>
       /\ d.calls[1].call = "mqtt_publish"
       /\ pub_topic' = topic
       /\ pub_msg' = msg
       /\ pub_param' = d.pub_param
       /\ cmdCalls' = d.calls
    /\ cpc' = "in_mqtt_publish"
    /\ last' = NoCmd
    /\ hout' = NoEvt
    /\ UNCHANGED << sessionVars, sub_message_id, thr, datamode >>

\* mqtt_publish returns r and the command returns it
PublishRet(r) ==
    /\ cpc = "in_mqtt_publish"
    /\ cpc' = "idle"
    /\ last' = [cmd |-> "publish", ret |-> r, qos |-> pub_param.qos,
                retain |-> pub_param.retain, prev |-> 0]
    /\ hout' = NoEvt
    /\ UNCHANGED << sessionVars, pubsubVars, thr, datamode, cmdCalls >>

NextSend ==
    \/ handle_at_mqtt_connect
    \/ DrvTop
    \/ DrvPoll
    \/ DrvLiveCall
    \/ DrvLiveRet
    \/ DrvInput
    \/ DrvInputRet
    \/ DrvCheck
    \/ DrvAbort
    \/ \E qos \in {0, MQTT_QOS_2_EXACTLY_ONCE} : PublishCall("t/1", "hello", qos, 0)
    \/ \E r \in EngineResults : PublishRet(r)

SpecSend == Init /\ [][NextSend]_vars

Next == NextLife \/ NextPub \/ NextSend

Spec == Init /\ [][Next]_vars

-----------------------------------------------------------------------------
(* Properties *)

\* a call to name is among the calls of the command that returned
Called(name) == \E i \in 1..Len(cmdCalls) : cmdCalls[i].call = name

\* C1: when a connect returns success the connected flag is true and the
\* driver thread it created is running: the driver has not seen the flag false
\* at its loop top before connect set it.
C1_DriverRunsWhenConnectReturns ==
    (last.cmd = "connect" /\ last.ret = OK) => (ctx.connected /\ ThreadAlive)

\* C2: a connect on an unconnected session that fails in address resolution or
\* in the handshake returns that step's error code, leaves the connected flag
\* false and creates no driver thread.
C2_FailedConnectLeavesUnconnected ==
    [][ (cpc = "idle" /\ ~ctx.connected /\ last'.cmd = "connect"
           /\ last'.ret \notin {OK, EINVAL})
        => /\ ~ctx'.connected
           /\ thr' = thr
           /\ ~Called("k_thread_create")'
           /\ cpc' = "idle"
           /\ \/ last'.ret = EAI_FAIL /\ cmdCalls' = << Call("getaddrinfo", 0) >>
              \/ last'.ret = EIO
                   /\ cmdCalls' = << Call("getaddrinfo", 0), Call("mqtt_connect", 0) >> ]_vars

\* a connect has just returned the handshake's error
C2_Witness ==
    /\ last.cmd = "connect"
    /\ last.ret = EIO
    /\ cmdCalls = << Call("getaddrinfo", 0), Call("mqtt_connect", 0) >>
    /\ ~ctx.connected

\* C3: a connect command given while connected fails with -EISCONN and leaves
\* the client id, username, password, broker host, port, security tag and
\* address family of the session as they were, with no engine call and no
\* thread created.
C3_RejectedConnectKeepsSession ==
    [][ (cpc = "idle" /\ ctx.connected /\ last'.cmd = "connect" /\ last'.ret # EINVAL)
        => /\ last'.ret = EISCONN
           /\ mqtt_clientid' = mqtt_clientid
           /\ mqtt_username' = mqtt_username
           /\ mqtt_password' = mqtt_password
           /\ mqtt_broker_url' = mqtt_broker_url
           /\ mqtt_broker_port' = mqtt_broker_port
           /\ ctx'.sec_tag = ctx.sec_tag
           /\ ctx'.family = ctx.family
           /\ ctx'.username = ctx.username
           /\ ctx'.password = ctx.password
           /\ cmdCalls' = << >>
           /\ thr' = thr ]_vars

\* C4: a disconnect given while the connected flag is false fails with
\* -ENOTCONN and changes nothing: no engine call, no wait for the thread, the
\* broker reference, the flag and the session fields as they were.
C4_DisconnectWhenUnconnected ==
    [][ (cpc = "idle" /\ ~ctx.connected
           /\ (last'.cmd = "disconnect" \/ cpc' = "disc_join"))
        => /\ last' = Ret("disconnect", ENOTCONN)
           /\ cpc' = "idle"
           /\ cmdCalls' = << >>
           /\ hout' = NoEvt
           /\ UNCHANGED << sessionVars, pubsubVars, thr, datamode >> ]_vars

\* a disconnect has just been refused on a session that was connected before
C4_Witness ==
    /\ last = Ret("disconnect", ENOTCONN)
    /\ ~ctx.connected
    /\ thr.pc = "done"

\* C5: every disconnect given while connected waits for the driver thread and
\* clears the broker reference before it returns, and returns the result of
\* the engine's mqtt_disconnect, whether that call failed or not.
C5_TeardownUnconditional ==
    (last.cmd = "disconnect" /\ last.ret # ENOTCONN)
    => /\ client.broker = "NULL"
       /\ Called("mqtt_disconnect")
       /\ Called("k_thread_join") \/ Called("k_thread_join:timeout")
       /\ Called("slm_at_mqtt_uninit")

\* C6: when a disconnect given on a connected session has returned, the
\* connected flag is false.
C6_DisconnectedAfterDisconnect ==
    (last.cmd = "disconnect" /\ last.ret # ENOTCONN) => ~ctx.connected

\* one allocation of a 16-bit message id that is never 0: the previous id plus
\* one, or 1 when the counter is at the end of its range
IdStep(old, new) ==
    /\ new # 0
    /\ new = old + 1 \/ (old + 1 >= UINT16_MAX /\ new = 1)

\* the ids the command that returned gave to the engine
IdsUsed ==
    { cmdCalls[i].id : i \in { j \in 1..Len(cmdCalls) :
        cmdCalls[j].call \in {"mqtt_publish", "mqtt_subscribe", "mqtt_unsubscribe"} } }

\* the command that returned passed its argument checks
Accepted == cmdCalls # << >>

\* C7: each accepted publish uses the previous publish id plus one and each
\* subscribe or unsubscribe the previous subscribe id plus one, except at the
\* wrap; no id is 0; a publish leaves the subscribe counter alone and a
\* subscribe or unsubscribe the publish counter; the subscribe id after 0 is 1.
C7_MessageIdsIndependent ==
    [][ /\ (last'.cmd = "publish" /\ Accepted')
           => /\ IdStep(pub_param.message_id, pub_param'.message_id)
              /\ IdsUsed' \subseteq {pub_param'.message_id}
              /\ sub_message_id' = sub_message_id
        /\ last'.cmd = "datamode_send"
           => /\ IdsUsed' = {pub_param.message_id}
              /\ 0 \notin IdsUsed'
              /\ pub_param'.message_id = pub_param.message_id
              /\ sub_message_id' = sub_message_id
        /\ last'.cmd \in {"subscribe", "unsubscribe"}
           => /\ IdStep(sub_message_id, sub_message_id')
              /\ IdsUsed' \subseteq {sub_message_id'}
              /\ Accepted' => IdsUsed' # {}
              /\ sub_message_id = 0 => sub_message_id' = 1
              /\ pub_param'.message_id = pub_param.message_id ]_vars

\* the subscribe counter has wrapped to 1 while the publish counter has not
C7_Witness ==
    /\ last.cmd = "subscribe"
    /\ last.prev = UINT16_MAX - 1
    /\ sub_message_id = 1
    /\ IdsUsed = {1}
    /\ pub_param.message_id = 2

\* the id after old under the rule that skips only 0
SkipZero(old) == IF old = UINT16_MAX THEN 1 ELSE old + 1

\* C8: the id after 65534 is 65535 and the id after 65535 is 1, for the
\* publish counter and for the subscribe counter: only 0 is skipped.
C8_WrapSkipsOnlyZero ==
    [][ /\ (last'.cmd = "publish" /\ Accepted')
           => pub_param'.message_id = SkipZero(pub_param.message_id)
        /\ last'.cmd \in {"subscribe", "unsubscribe"}
           => sub_message_id' = SkipZero(sub_message_id) ]_vars

\* the command that returned was given a qos outside 0..2 or a retain outside 0..1
BadQos == last.cmd \in {"publish", "subscribe"} /\ last.qos \notin 0..2
BadRetain == last.cmd = "publish" /\ last.retain \notin 0..1

\* C9: a publish or subscribe with a qos outside 0..2, and a publish with a
\* retain outside 0..1, returns -EINVAL without a call to the engine and
\* without entering data mode.
C9_BadArgumentsRejected ==
    (BadQos \/ BadRetain) => (last.ret = EINVAL /\ cmdCalls = << >> /\ ~datamode)

\* a subscribe with qos 3 has just been refused
C9_Witness ==
    /\ last.cmd = "subscribe"
    /\ last.qos = 3
    /\ last.ret = EINVAL
    /\ cmdCalls = << >>

\* C10: a publish or subscribe rejected for its qos or retain changes neither
\* message id counter nor the composed publish parameters (qos, retain and the
\* topic of the publish composed before).
C10_RejectedCommandChangesNothing ==
    [][ (BadQos' \/ BadRetain')
        => /\ pub_param' = pub_param
           /\ pub_param.topic_size > 0 => pub_topic' = pub_topic
           /\ sub_message_id' = sub_message_id ]_vars

\* the places of the "(event type, result code)" notification in what a run of
\* the handler sent to the response channel
Notifications(out) ==
    { i \in 1..Len(out.rsp) :
        "line" \in DOMAIN out.rsp[i] /\ out.rsp[i].line = "#XMQTTEVT" }

\* C11: every run of the event handler, whatever the type and result of the
\* event and whatever its branch did, sends exactly one notification of the
\* event type and the result code, and sends it last: after the write of the
\* connected flag, the QoS2 call or the publish framing of its branch.
C11_OneNotificationPerEvent ==
    hout.type # "none"
    => /\ Len(hout.rsp) > 0
       /\ Notifications(hout) = {Len(hout.rsp)}
       /\ hout.rsp[Len(hout.rsp)] =
            [line |-> "#XMQTTEVT", a |-> hout.evt.type, b |-> hout.ret]
       /\ Len(hout.trace) > 0
       /\ \A i \in 1..Len(hout.trace) :
             hout.trace[i] = "#XMQTTEVT" <=> i = Len(hout.trace)

\* the handler has run on a PUBREC whose release call failed
C11_Witness ==
    /\ hout.evt.type = "MQTT_EVT_PUBREC"
    /\ hout.evt.result = OK
    /\ hout.ret = EIO
    /\ hout.trace = << "mqtt_publish_qos2_release", "#XMQTTEVT" >>

\* the QoS2 call that answers an event
QoS2Call(type) ==
    IF type = "MQTT_EVT_PUBREC" THEN "mqtt_publish_qos2_release"
    ELSE "mqtt_publish_qos2_complete"

\* C12: a PUBREC with result 0 makes exactly one release call and a PUBREL
\* with result 0 exactly one completion call, with the message id of the
\* event; with another result neither call is made; and the call, failed or
\* not, is made once and leaves the connected flag as it was.
C12_QoS2Sequencing ==
    [][ hout'.evt.type \in {"MQTT_EVT_PUBREC", "MQTT_EVT_PUBREL"}
        => /\ hout'.calls = IF hout'.evt.result = OK
                            THEN << Call(QoS2Call(hout'.evt.type), hout'.evt.message_id) >>
                            ELSE << >>
           /\ ctx'.connected = ctx.connected ]_vars

\* a completion call for message id 2 has failed on a connected session
C12_Witness ==
    /\ hout.evt.type = "MQTT_EVT_PUBREL"
    /\ hout.evt.result = OK
    /\ hout.sub = EIO
    /\ hout.calls = << Call("mqtt_publish_qos2_complete", 2) >>
    /\ ctx.connected

\* C13: a PUBLISH event whose payload of L bytes fits the buffer and is read
\* is answered by #XMQTTMSG with the topic length and L, the topic and the L
\* bytes read; one whose payload is longer than the buffer is not read, sends
\* no #XMQTTMSG framing, is notified with -EMSGSIZE and leaves the connected
\* flag as it was.
C13_PublishRoundTrip ==
    [][ hout'.evt.type = "MQTT_EVT_PUBLISH"
        => LET e == hout'.evt
               L == e.len
           IN /\ (L <= MQTT_MESSAGE_BUFFER_LEN /\ hout'.sub = OK)
                 => /\ hout'.ret = OK
                    /\ Len(hout'.rsp) = 4
                    /\ hout'.rsp[1] = [line |-> "#XMQTTMSG", a |-> Len(e.topic), b |-> L]
                    /\ hout'.rsp[2].bytes = e.topic
                    /\ hout'.rsp[2].size = Len(e.topic)
                    /\ hout'.rsp[3].bytes = Payload(L)
                    /\ Len(hout'.rsp[3].bytes) = L
              /\ L > MQTT_MESSAGE_BUFFER_LEN
                 => /\ hout'.ret = EMSGSIZE
                    /\ hout'.trace = << "#XMQTTEVT" >>
                    /\ hout'.rsp = << [line |-> "#XMQTTEVT", a |-> e.type, b |-> EMSGSIZE] >>
                    /\ ctx'.connected = ctx.connected ]_vars

\* a payload that fills the buffer has been read and sent
C13_Witness ==
    /\ hout.evt.type = "MQTT_EVT_PUBLISH"
    /\ hout.evt.len = MQTT_MESSAGE_BUFFER_LEN
    /\ hout.ret = OK
    /\ Len(hout.rsp) = 4
    /\ hout.rsp[3].bytes = Payload(MQTT_MESSAGE_BUFFER_LEN)

\* the command that returned called the engine to publish, subscribe or
\* unsubscribe
SendCalled ==
    Called("mqtt_publish") \/ Called("mqtt_subscribe") \/ Called("mqtt_unsubscribe")

\* C14: a publish command, a data mode chunk, a subscribe or an unsubscribe
\* calls the engine only while the connected flag is true.
C14_SendsOnlyWhileConnected ==
    SendCalled => ctx.connected

\* the command context is inside an engine call that sends
CmdInSend == cpc = "in_mqtt_publish"

\* the driver thread is inside mqtt_live, or has made a QoS2 call from the
\* event handler in the step that led here
DrvInSend == thr.pc = "in_mqtt_live" \/ hout.calls # << >>

\* C15: the command context and the driver thread are never both inside an
\* engine call that sends: a publish of the command context does not overlap
\* the driver's keepalive call or a QoS2 release or completion call of the
\* event handler.
C15_SendsSerialized ==
    ~(CmdInSend /\ DrvInSend)

\* a step of the instance of mqtt_thread_fn that mqtt_thread holds
DriverStep == thr' # thr /\ cpc' = cpc

\* poll() reported a socket error, a hangup or an invalid descriptor
Fatal(revents) == revents \cap {POLLERR, POLLHUP, POLLNVAL} # {}

\* C16: in the driver loop a failed mqtt_input after POLLIN, and POLLERR,
\* POLLHUP or POLLNVAL in revents, each lead to one mqtt_abort and then to the
\* end of the loop, with no poll, mqtt_live or mqtt_input after it; an
\* iteration whose mqtt_input succeeded or was not due and that saw none of
\* the three conditions does not abort and goes to the next loop top.
C16_FatalConditionsAbortOnce ==
    [][ DriverStep
        => /\ thr.pc \notin {"none", "done"}
           /\ thr.pc = "live"
              => thr'.pc = IF POLLIN \in thr.revents THEN "input" ELSE "check"
           /\ thr.pc = "input" => thr'.pc \in {"input_ret", "abort", "check"}
           /\ (thr.pc \in {"input", "input_ret"} /\ thr'.pc # "input_ret")
              => thr'.pc = IF thr'.err # OK THEN "abort" ELSE "check"
           /\ thr.pc = "check"
              => thr'.pc = IF Fatal(thr.revents) THEN "abort" ELSE "top"
           /\ thr.pc = "abort" => (thr'.pc = "done" /\ thr'.exit = "mqtt_abort")
           /\ thr'.pc = "abort" => thr.pc \in {"input", "input_ret", "check"} ]_vars

\* the driver has ended by mqtt_abort after a hangup that followed a
\* successful mqtt_input
C16_Witness ==
    /\ thr.pc = "done"
    /\ thr.exit = "mqtt_abort"
    /\ thr.err = OK
    /\ POLLHUP \in thr.revents

\* the driver has left its loop on a fault: poll() failed, or mqtt_input
\* failed or poll() reported POLLERR, POLLHUP or POLLNVAL and the transport was
\* aborted
DriverEndedOnFault == thr.pc = "done" /\ thr.exit \in {"poll", "mqtt_abort"}

\* C17: whenever the driver thread has ended on a fault the connected flag is
\* false, so that the next connect is accepted.
C17_FaultSurfacesAsDisconnected ==
    DriverEndedOnFault => ~ctx.connected

\* C18: a driver that finds the connected flag false at its loop top ends
\* there, without another poll, mqtt_live or mqtt_input; and whenever the flag
\* is false while the driver is alive, the driver ends unless the flag is set
\* again.
C18_DriverTerminatesCooperatively ==
    /\ [][ (DriverStep /\ thr.pc = "top" /\ ~ctx.connected)
           => (thr'.pc = "done" /\ thr'.exit = "connected") ]_vars
    /\ (~ctx.connected /\ ThreadAlive) ~> (~ThreadAlive \/ ctx.connected)

\* a failed CONNACK has cleared the flag while the driver is inside mqtt_input
C18_Witness ==
    /\ hout.evt.type = "MQTT_EVT_CONNACK"
    /\ hout.evt.result = EIO
    /\ ~ctx.connected
    /\ thr.pc = "input_ret"

\* C19: a connect creates the driver thread only when mqtt_thread holds no
\* instance of mqtt_thread_fn that has not returned: at most one driver is
\* alive at any time.
C19_AtMostOneDriver ==
    [][ (cpc = "conn_create" /\ cpc' = "conn_mark") => ~ThreadAlive ]_vars

\* C20: when the driver thread has ended by itself, on a fatal transport error
\* that made it abort the transport, and a disconnect command given after that
\* has returned, the broker reference is cleared: the disconnect does the
\* cleanup the driver left.
C20_CleanupAfterDriverEnded ==
    (thr.pc = "done" /\ thr.exit = "mqtt_abort"
       /\ last.cmd = "disconnect" /\ last.ret \in {OK, ENOTCONN})
    => client.broker = "NULL"

====
